---- MODULE Spec2Model ----
(***************************************************************************)
(* A model of brainfuck-rs-quick: the translator (Interpreter), the loop   *)
(* optimizers, the memory tape (Memory) and the tree-walking executor      *)
(* (Op::execute).                                                          *)
(*                                                                         *)
(* Representation notes.                                                   *)
(*  - `data: [u8; MEM_SIZE]` is kept sparsely: `data` is a function whose  *)
(*    domain is the set of indices holding a non-zero byte; every other    *)
(*    index of 0..MEM_SIZE-1 holds 0.                                      *)
(*  - `pointer: usize` is kept as the signed residue of the usize value    *)
(*    modulo 2^64: a residue r < 0 stands for the usize value 2^64 + r     *)
(*    (what a wrapping `+=` leaves after seeking below 0).                 *)
(*  - `overflow_checks` is the build's overflow-checks setting: with it a  *)
(*    `+=` that overflows panics (cargo's dev profile), without it the     *)
(*    result wraps (cargo's release profile).                              *)
(***************************************************************************)
EXTENDS Integers, Sequences, FiniteSets, TLC

VARIABLES
    overflow_checks,  \* build setting: arithmetic overflow panics / wraps
    data,             \* Memory::data (sparse, see above)
    pointer,          \* Memory::pointer (signed residue, see above)
    output,           \* the output vector of bytes
    stack,            \* the active Op::execute(Routine) calls, innermost last
    status,           \* "ok" | "panicked"
    calls,            \* number of top-level execute calls made so far
    stdin,            \* the bytes the reader can still supply
    source,           \* the program bytes handed to the translator
    tree,             \* the Op the translator built (NoneOp before it ran)
    rest,             \* number of bytes the translator's iterator has consumed
    entry,            \* the memory and output a loop under test is entered with
    replacement,      \* what the loop optimizers returned for the loop under test
    fast              \* the state after executing the replacement from `entry`

vars == <<overflow_checks, data, pointer, output, stack, status, calls, stdin,
          source, tree, rest, entry, replacement, fast>>
xvars == <<source, tree, rest, entry, replacement, fast>>

\* The size of the memory.
MEM_SIZE == 30000

\* Number of top-level routines the driver executes on one memory.
MaxCalls == 2

\* The amounts of the driver's Seek and Inc ops, the bytes its reader supplies.
SeekAmounts == {-1, 1, MEM_SIZE - 1}
IncAmounts == {-257, -1, 1, 2}
InputBytes == {0, 65}
MaxInput == 1

\* The longest program handed to the translator.
MaxLen == 4

\* Loops under test: the largest Inc amount and the largest step of a body,
\* the cell of the tape they are entered at.
MaxAmount == 2
MaxStep == 3
BasePos == 1
MaxBody == 6

----------------------------------------------------------------------------
(* Op constructors *)

Seek(amount) == [type |-> "Seek", amount |-> amount]
Inc(amount) == [type |-> "Inc", amount |-> amount]
Input == [type |-> "Input"]
Output == [type |-> "Output"]
Zero == [type |-> "Zero"]
Routine(ops, cond) == [type |-> "Routine", ops |-> ops, cond |-> cond]
AddAndZero(targets) == [type |-> "AddAndZero", targets |-> targets]

\* Option::None; Some(op) is op itself
NoneOp == [type |-> "None"]

----------------------------------------------------------------------------
(* Memory *)

\* data[i] for an index inside the array
Cell(d, i) == IF i \in DOMAIN d THEN d[i] ELSE 0

\* data[i] = v for an index inside the array
Store(d, i, v) ==
    [j \in (DOMAIN d \ {i}) \cup (IF v = 0 THEN {} ELSE {i}) |->
        IF j = i THEN v ELSE d[j]]

\* the bounds check of every `self.data[self.pointer]`
InBounds(p) == 0 <= p /\ p < MEM_SIZE

\* Memory::new
NewData == << >>
NewPointer == 0

\* `self.pointer += amount as usize` carries out of 64 bits: the usize value
\* of the pointer plus the usize value of the amount reaches 2^64.
SeekOverflows(p, amount) ==
    IF p >= 0 /\ amount >= 0 THEN FALSE
    ELSE IF p < 0 /\ amount < 0 THEN TRUE
    ELSE p + amount >= 0

\* Memory::seek: the new pointer, or a panic of the overflow check
seek(p, amount) ==
    IF overflow_checks /\ SeekOverflows(p, amount)
    THEN [panic |-> TRUE]
    ELSE [panic |-> FALSE, pointer |-> p + amount]

\* Memory::inc: the new data, or a panic (index out of bounds, overflow check)
inc(d, p, amount) ==
    IF ~InBounds(p) THEN [panic |-> TRUE]
    ELSE LET sum == Cell(d, p) + (amount % 256)
         IN  IF overflow_checks /\ sum >= 256
             THEN [panic |-> TRUE]
             ELSE [panic |-> FALSE, data |-> Store(d, p, sum % 256)]

\* Memory::read
read(d, p) ==
    IF ~InBounds(p) THEN [panic |-> TRUE]
    ELSE [panic |-> FALSE, value |-> Cell(d, p)]

\* Memory::zero
zero(d, p) ==
    IF ~InBounds(p) THEN [panic |-> TRUE]
    ELSE [panic |-> FALSE, value |-> (Cell(d, p) = 0)]

\* Memory::set_zero without its store
set_zero_forgotten(d, p) ==
    IF ~InBounds(p) THEN [panic |-> TRUE]
    ELSE [panic |-> FALSE, data |-> d]

\* Memory::set_zero
set_zero(d, p) ==
    IF ~InBounds(p) THEN [panic |-> TRUE]
    ELSE [panic |-> FALSE, data |-> Store(d, p, 0)]

\* Memory::write (the current cell becomes the byte read)
write(d, p, value) ==
    IF ~InBounds(p) THEN [panic |-> TRUE]
    ELSE [panic |-> FALSE, data |-> Store(d, p, value)]

----------------------------------------------------------------------------
(* f32: a finite value is sign * mant * 2^exp with mant = 0 (zero) or      *)
(* 2^23 <= mant < 2^24 (24 significant bits, round to nearest, ties to     *)
(* even). The values met here are far from the subnormal and infinite      *)
(* ranges.                                                                 *)

RECURSIVE Pow2(_)
Pow2(k) == IF k = 0 THEN 1 ELSE 2 * Pow2(k - 1)

RECURSIVE BitLen(_)
BitLen(n) == IF n = 0 THEN 0 ELSE 1 + BitLen(n \div 2)

Abs(n) == IF n < 0 THEN -n ELSE n

F32Zero == [neg |-> FALSE, mant |-> 0, exp |-> 0]

\* least k with num * 2^k >= den * 2^23 (0 < num < den * 2^24, den < 128)
RECURSIVE QuotShift(_, _, _)
QuotShift(num, den, k) ==
    IF num >= den * Pow2(23) THEN k ELSE QuotShift(2 * num, den, k + 1)

\* `amount as f32 / step as f32`: both conversions are exact, the quotient is
\* rounded once (amount # 0, step > 0)
F32Div(amount, step) ==
    LET k == QuotShift(Abs(amount), step, 0)
        n == Abs(amount) * Pow2(k)
        q == n \div step
        r == n % step
        m == IF 2 * r > step \/ (2 * r = step /\ q % 2 = 1) THEN q + 1 ELSE q
    IN  IF m = Pow2(24)
        THEN [neg |-> amount < 0, mant |-> Pow2(23), exp |-> 1 - k]
        ELSE [neg |-> amount < 0, mant |-> m, exp |-> -k]

\* `(value as f32 * factor)` converted to an integer by truncation: the
\* product of a byte and an f32 is rounded to 24 bits, then its fraction is
\* dropped. The 32-bit product is held as a * 2^12 + b (|factor| < 2^12).
F32MulTrunc(value, f) ==
    IF value = 0 \/ f.mant = 0 THEN 0
    ELSE LET hi == f.mant \div 4096
             lo == f.mant % 4096
             a  == value * hi + (value * lo) \div 4096
             b  == (value * lo) % 4096
             d  == BitLen(a) - 12
             bq == b \div Pow2(d)
             br == b % Pow2(d)
             up == 2 * br > Pow2(d) \/ (2 * br = Pow2(d) /\ bq % 2 = 1)
             b2 == (IF up THEN bq + 1 ELSE bq) * Pow2(d)
             a2 == IF b2 = 4096 THEN a + 1 ELSE a
             i  == a2 \div Pow2((-f.exp) - 12)
         IN  IF f.neg THEN -i ELSE i

\* Memory::copy_zero, the targets from the i-th on: to the cell at each offset
\* from the pointer, factor * value is added modulo 256
RECURSIVE AddTargets(_, _, _, _, _)
AddTargets(d, p, value, targets, i) ==
    IF i > Len(targets) THEN [panic |-> FALSE, data |-> d]
    ELSE LET t == p + targets[i][1]
         IN  IF ~InBounds(t) THEN [panic |-> TRUE]
             ELSE AddTargets(
                    Store(d, t, (Cell(d, t) + F32MulTrunc(value, targets[i][2])) % 256),
                    p, value, targets, i + 1)

\* Memory::copy_zero: add the current cell to the targets, then zero it
copy_zero(d, p, targets) ==
    IF ~InBounds(p) THEN [panic |-> TRUE]
    ELSE LET r == AddTargets(d, p, Cell(d, p), targets, 1)
         IN  IF r.panic THEN r
             ELSE [panic |-> FALSE, data |-> Store(r.data, p, 0)]

----------------------------------------------------------------------------
(* Op::execute *)

\* the reader's answer to read_byte(): the next byte, or a failure when it
\* has none to supply
ReaderFailed == -1
read_byte(in) == IF in = << >> THEN ReaderFailed ELSE Head(in)

State(d, p, o) == [data |-> d, pointer |-> p, output |-> o, panic |-> FALSE]
Panicked(st) == [st EXCEPT !.panic = TRUE]

\* Op::Input with `.expect(..)` replaced by `.unwrap_or(0)`
execute_input_default(st, byte) ==
    LET r == write(st.data, st.pointer, IF byte = ReaderFailed THEN 0 ELSE byte)
    IN  IF r.panic THEN Panicked(st) ELSE [st EXCEPT !.data = r.data]

\* Op::Input: `.expect("failed to read user input")` panics without a byte,
\* else the byte is written to the current cell
execute_input(st, byte) ==
    IF byte = ReaderFailed THEN Panicked(st)
    ELSE LET r == write(st.data, st.pointer, byte)
         IN  IF r.panic THEN Panicked(st) ELSE [st EXCEPT !.data = r.data]

\* Op::execute of an op that is no Routine, on memory and output `st`;
\* `byte` is what the reader supplies to an Input
execute_op(op, st, byte) ==
    CASE op.type = "Seek" ->
           LET r == seek(st.pointer, op.amount)
           IN  IF r.panic THEN Panicked(st) ELSE [st EXCEPT !.pointer = r.pointer]
      [] op.type = "Inc" ->
           LET r == inc(st.data, st.pointer, op.amount)
           IN  IF r.panic THEN Panicked(st) ELSE [st EXCEPT !.data = r.data]
      [] op.type = "Zero" ->
           LET r == set_zero(st.data, st.pointer)
           IN  IF r.panic THEN Panicked(st) ELSE [st EXCEPT !.data = r.data]
      [] op.type = "Output" ->
           LET r == read(st.data, st.pointer)
           IN  IF r.panic THEN Panicked(st)
               ELSE [st EXCEPT !.output = Append(st.output, r.value)]
      [] op.type = "Input" -> execute_input(st, byte)
      [] op.type = "AddAndZero" ->
           LET r == copy_zero(st.data, st.pointer, op.targets)
           IN  IF r.panic THEN Panicked(st) ELSE [st EXCEPT !.data = r.data]

\* the ops of a sequence without Routine and Input, executed in order
RECURSIVE execute_all(_, _, _)
execute_all(ops, st, i) ==
    IF i > Len(ops) \/ st.panic THEN st
    ELSE execute_all(ops, execute_op(ops[i], st, ReaderFailed), i + 1)

Here == State(data, pointer, output)
Running == status = "ok" /\ stack # << >>
Idle == status = "ok" /\ stack = << >>
Top == stack[Len(stack)]
AtOp == Running /\ Top.pc <= Len(Top.ops)
CurOp == Top.ops[Top.pc]
At(type) == AtOp /\ CurOp.type = type

\* the innermost call moves on to its next op
Advance == [stack EXCEPT ![Len(stack)].pc = @ + 1]

\* the run dies of a panic
Panic ==
    /\ status' = "panicked"
    /\ UNCHANGED <<data, pointer, output, stack>>

\* the op under the innermost call's position has been executed
Step(r) ==
    /\ IF r.panic THEN Panic
       ELSE /\ data' = r.data
            /\ pointer' = r.pointer
            /\ output' = r.output
            /\ stack' = Advance
            /\ UNCHANGED status
    /\ UNCHANGED <<overflow_checks, calls, xvars>>

ExecSeek ==
    At("Seek") /\ Step(execute_op(CurOp, Here, ReaderFailed)) /\ UNCHANGED stdin

ExecInc ==
    At("Inc") /\ Step(execute_op(CurOp, Here, ReaderFailed)) /\ UNCHANGED stdin

ExecZero ==
    At("Zero") /\ Step(execute_op(CurOp, Here, ReaderFailed)) /\ UNCHANGED stdin

ExecOutput ==
    At("Output") /\ Step(execute_op(CurOp, Here, ReaderFailed)) /\ UNCHANGED stdin

ExecAddAndZero ==
    At("AddAndZero") /\ Step(execute_op(CurOp, Here, ReaderFailed)) /\ UNCHANGED stdin


\* Op::Input: the reader supplies its next byte, or fails
ExecInput ==
    /\ At("Input")
    /\ Step(execute_op(CurOp, Here, read_byte(stdin)))
    /\ stdin' = IF stdin = << >> THEN stdin ELSE Tail(stdin)

\* `if cond && memory.zero() { return; }`
routine_skips(cond, is_zero) == cond /\ is_zero

\* the end test without its `!cond ||`
routine_ends_when_zero(cond, is_zero) == is_zero

\* `if !cond || memory.zero() { break; }`
routine_ends(cond, is_zero) == ~cond \/ is_zero

\* Op::Routine(ops, cond), the entry of the call: skipped when conditional and
\* the current cell is zero, else its first pass begins
EnterRoutine(ops, cond, caller) ==
    LET z == IF cond THEN zero(data, pointer) ELSE [panic |-> FALSE, value |-> FALSE]
    IN  IF z.panic THEN Panic
        ELSE /\ stack' = IF routine_skips(cond, z.value) THEN caller
                         ELSE Append(caller, [ops |-> ops, pc |-> 1, cond |-> cond])
             /\ UNCHANGED <<data, pointer, output, status>>

\* Op::Routine met inside a routine
ExecRoutine ==
    /\ At("Routine")
    /\ EnterRoutine(CurOp.ops, CurOp.cond, Advance)
    /\ UNCHANGED <<overflow_checks, calls, stdin, xvars>>

\* Op::Routine: all contained operations were executed once more; the call
\* ends if not conditional or if the current cell is zero, else it repeats
PassEnd ==
    /\ Running /\ Top.pc > Len(Top.ops)
    /\ LET z == zero(data, pointer)
       IN  IF Top.cond /\ z.panic THEN Panic
           ELSE /\ stack' = IF routine_ends(Top.cond, ~z.panic /\ z.value)
                            THEN SubSeq(stack, 1, Len(stack) - 1)
                            ELSE [stack EXCEPT ![Len(stack)].pc = 1]
                /\ UNCHANGED <<data, pointer, output, status>>
    /\ UNCHANGED <<overflow_checks, calls, stdin, xvars>>

\* bf(): the top-level routine of a program is executed
Start(ops) ==
    /\ Idle /\ calls < MaxCalls
    /\ EnterRoutine(ops, FALSE, << >>)
    /\ calls' = calls + 1
    /\ UNCHANGED <<overflow_checks, stdin, xvars>>

----------------------------------------------------------------------------
(* Interpreter: program bytes to operations. A byte stream is the sequence *)
(* `bytes` with the number `pos` of bytes its iterator has yielded.        *)

\* Interpreter::commit: the workspace op, if any, is pushed; `fresh` replaces it
commit(workspace, ops, fresh) ==
    [workspace |-> fresh,
     ops |-> IF workspace # NoneOp THEN Append(ops, workspace) ELSE ops]

\* Interpreter::process_workspace_seek
process_workspace_seek(workspace, ops, amount) ==
    IF workspace.type = "Seek"
    THEN [workspace |-> Seek(workspace.amount + amount), ops |-> ops]
    ELSE commit(workspace, ops, Seek(amount))

\* Interpreter::process_workspace_inc
process_workspace_inc(workspace, ops, amount) ==
    IF workspace.type = "Inc"
    THEN [workspace |-> Inc(workspace.amount + amount), ops |-> ops]
    ELSE commit(workspace, ops, Inc(amount))

\* `ops.iter().all(|op| matches!(op, Op::Inc { .. }))`
AllInc(ops) == \A i \in 1..Len(ops) : ops[i].type = "Inc"

\* Interpreter::interpret_routine, "optimize a zeroing loop": the replacement
\* of a routine, if any
optimize_zero(cond, ops) == IF cond /\ AllInc(ops) THEN Zero ELSE NoneOp

RECURSIVE interpret_loop(_, _, _, _)
RECURSIVE interpret_routine(_, _, _)

\* Interpreter::interpret_vec: the ops up to the end of the stream or a `]`
interpret_vec(bytes, pos) == interpret_loop(bytes, pos, << >>, NoneOp)

\* Interpreter::interpret_vec, its loop from one byte on and what follows it
interpret_loop(bytes, pos, ops, workspace) ==
    IF pos >= Len(bytes) \/ bytes[pos + 1] = "]"
    THEN [ops |-> IF workspace # NoneOp THEN Append(ops, workspace) ELSE ops,
          pos |-> IF pos >= Len(bytes) THEN pos ELSE pos + 1]
    ELSE LET byte == bytes[pos + 1]
         IN  CASE byte = ">" ->
                    LET w == process_workspace_seek(workspace, ops, 1)
                    IN  interpret_loop(bytes, pos + 1, w.ops, w.workspace)
               [] byte = "<" ->
                    LET w == process_workspace_seek(workspace, ops, -1)
                    IN  interpret_loop(bytes, pos + 1, w.ops, w.workspace)
               [] byte = "+" ->
                    LET w == process_workspace_inc(workspace, ops, 1)
                    IN  interpret_loop(bytes, pos + 1, w.ops, w.workspace)
               [] byte = "-" ->
                    LET w == process_workspace_inc(workspace, ops, -1)
                    IN  interpret_loop(bytes, pos + 1, w.ops, w.workspace)
               [] byte = "." ->
                    LET w == commit(workspace, ops, NoneOp)
                    IN  interpret_loop(bytes, pos + 1, Append(w.ops, Output), w.workspace)
               [] byte = "," ->
                    LET w == commit(workspace, ops, NoneOp)
                    IN  interpret_loop(bytes, pos + 1, Append(w.ops, Input), w.workspace)
               [] byte = "[" ->
                    LET w == commit(workspace, ops, NoneOp)
                        r == interpret_routine(bytes, pos + 1, TRUE)
                    IN  interpret_loop(bytes, r.pos, Append(w.ops, r.op), w.workspace)
               [] OTHER -> interpret_loop(bytes, pos + 1, ops, workspace)

\* Interpreter::interpret_routine
interpret_routine(bytes, pos, cond) ==
    LET v == interpret_vec(bytes, pos)
        z == optimize_zero(cond, v.ops)
    IN  [op |-> IF z # NoneOp THEN z ELSE Routine(v.ops, cond), pos |-> v.pos]

\* Interpreter::interpret
interpret(program) == interpret_routine(program, 0, FALSE)

----------------------------------------------------------------------------
(* optimize_add_and_zero *)

\* the loop over the (seek, add) pairs, `i` ops having been taken from the
\* iterator
RECURSIVE add_and_zero_pairs(_, _, _, _, _)
add_and_zero_pairs(ops, step, i, offset, targets) ==
    IF i + 2 > Len(ops) THEN NoneOp
    ELSE LET seek_op == ops[i + 1]
             sub_op == ops[i + 2]
             sub_i == i + 1
         IN  IF seek_op.type # "Seek" \/ sub_op.type # "Inc" THEN NoneOp
             ELSE LET off == offset + seek_op.amount
                      factor == IF sub_op.amount # 0
                                THEN F32Div(sub_op.amount, step)
                                ELSE F32Zero
                      found == IF factor # F32Zero
                               THEN Append(targets, <<off, factor>>)
                               ELSE targets
                  IN  IF off = 0 THEN NoneOp
                      ELSE IF sub_i = Len(ops) - 2
                      THEN IF ops[i + 3].type = "Seek" /\ ops[i + 3].amount = -off
                           THEN AddAndZero(found)
                           ELSE NoneOp
                      ELSE add_and_zero_pairs(ops, step, i + 2, off, found)

\* optimize_add_and_zero without the test of the first Inc's sign:
\* `if amount != 0 => step = amount.abs()`
optimize_add_and_zero_any_sign(cond, ops) ==
    IF ~cond \/ Len(ops) < 4 THEN NoneOp
    ELSE IF ~(ops[1].type = "Inc" /\ ops[1].amount # 0) THEN NoneOp
    ELSE add_and_zero_pairs(ops, Abs(ops[1].amount), 1, 0, << >>)

optimize_add_and_zero(cond, ops) ==
    IF ~cond \/ Len(ops) < 4 THEN NoneOp
    ELSE IF ~(ops[1].type = "Inc" /\ ops[1].amount < 0) THEN NoneOp
    ELSE add_and_zero_pairs(ops, -ops[1].amount, 1, 0, << >>)

\* the loop optimizers in their fixed order: the first replacement wins
optimize(cond, ops) ==
    LET z == optimize_zero(cond, ops)
    IN  IF z # NoneOp THEN z ELSE optimize_add_and_zero(cond, ops)

----------------------------------------------------------------------------
(* The executor on the programs of a driver: Memory::new, then the top-level *)
(* routines <<op>> for the ops below, one call after the other.             *)

Factor(amount, step) == IF amount # 0 THEN F32Div(amount, step) ELSE F32Zero

DriverOps ==
    {Seek(a) : a \in SeekAmounts} \cup {Inc(a) : a \in IncAmounts}
    \cup {Zero, Output, Input,
          AddAndZero(<< <<1, Factor(2, 1)>> >>),
          Routine(<<Inc(-1)>>, TRUE),
          Routine(<<Output, Inc(-1)>>, TRUE),
          Routine(<<Inc(-1), Seek(1), Inc(2), Seek(-1)>>, TRUE),
          Routine(<<Routine(<<Inc(-1), Seek(1)>>, TRUE), Seek(-1)>>, TRUE),
          Routine(<<Inc(1), Routine(<<Inc(1)>>, FALSE)>>, FALSE)}

NoEntry == State(NewData, NewPointer, << >>)

\* the sequences over S of length at most n
SeqsUpTo(S, n) == UNION {[1..k -> S] : k \in 0..n}

InputStreams == SeqsUpTo(InputBytes, MaxInput)

Init ==
    /\ overflow_checks \in BOOLEAN
    /\ data = NewData
    /\ pointer = NewPointer
    /\ output = << >>
    /\ stack = << >>
    /\ status = "ok"
    /\ calls = 0
    /\ stdin \in InputStreams
    /\ source = << >>
    /\ tree = NoneOp
    /\ rest = 0
    /\ entry = NoEntry
    /\ replacement = NoneOp
    /\ fast = NoEntry

Call == \E op \in DriverOps : Start(<<op>>)

Next ==
    \/ Call
    \/ ExecSeek
    \/ ExecInc
    \/ ExecZero
    \/ ExecOutput
    \/ ExecInput
    \/ ExecAddAndZero
    \/ ExecRoutine
    \/ PassEnd

Spec == Init /\ [][Next]_vars

----------------------------------------------------------------------------
(* The translator on every program of at most MaxLen bytes *)

\* the eight instruction bytes and a byte that is none of them
Bytes == {">", "<", "+", "-", ".", ",", "[", "]", "x"}

Pending == [type |-> "Pending"]

InitInterp ==
    /\ overflow_checks \in BOOLEAN
    /\ data = NewData
    /\ pointer = NewPointer
    /\ output = << >>
    /\ stack = << >>
    /\ status = "ok"
    /\ calls = 0
    /\ stdin = << >>
    /\ source \in SeqsUpTo(Bytes, MaxLen)
    /\ tree = Pending
    /\ rest = 0
    /\ entry = NoEntry
    /\ replacement = NoneOp
    /\ fast = NoEntry

\* Interpreter::interpret(&mut prog.bytes())
Interpret ==
    /\ tree = Pending
    /\ LET r == interpret(source)
       IN  tree' = r.op /\ rest' = r.pos
    /\ UNCHANGED <<overflow_checks, data, pointer, output, stack, status, calls,
                   stdin, source, entry, replacement, fast>>

NextInterp == Interpret

SpecInterp == InitInterp /\ [][NextInterp]_vars

----------------------------------------------------------------------------
(* bf() on every loop-free program of seek and increment bytes (and comment *)
(* bytes): the program is translated, then its routine is executed.         *)

SeekIncBytes == {">", "<", "+", "-", "x"}

InitCoalesce ==
    /\ overflow_checks \in BOOLEAN
    /\ data = NewData
    /\ pointer = NewPointer
    /\ output = << >>
    /\ stack = << >>
    /\ status = "ok"
    /\ calls = 0
    /\ stdin = << >>
    /\ source \in SeqsUpTo(SeekIncBytes, MaxLen)
    /\ tree = Pending
    /\ rest = 0
    /\ entry = NoEntry
    /\ replacement = NoneOp
    /\ fast = NoEntry

\* `.execute(&mut memory, &mut output)` on the translated program
ExecuteTree ==
    /\ tree # Pending /\ calls = 0
    /\ Start(tree.ops)

NextCoalesce ==
    \/ Interpret
    \/ ExecuteTree
    \/ ExecSeek
    \/ ExecInc
    \/ PassEnd

SpecCoalesce == InitCoalesce /\ [][NextCoalesce]_vars

----------------------------------------------------------------------------
(* A loop and its replacement: the routine `tree` is offered to the loop   *)
(* optimizers, the replacement (if any) is executed from the memory the    *)
(* loop is entered with, then the routine itself is executed from it.      *)

CellValues == 0..255

\* the tape with `base` under the pointer and `target` in the next cell
Tape(base, target) == Store(Store(NewData, BasePos, base), BasePos + 1, target)

InitLoop(routines, targets) ==
    /\ overflow_checks \in BOOLEAN
    /\ \E base \in CellValues, target \in targets :
         /\ data = Tape(base, target)
         /\ entry = State(Tape(base, target), BasePos, << >>)
    /\ pointer = BasePos
    /\ output = << >>
    /\ stack = << >>
    /\ status = "ok"
    /\ calls = 0
    /\ stdin = << >>
    /\ source = << >>
    /\ tree \in routines
    /\ rest = 0
    /\ replacement = Pending
    /\ fast = Pending

\* the loop optimizers are applied to the routine
Optimize ==
    /\ replacement = Pending
    /\ replacement' = [zero |-> optimize_zero(tree.cond, tree.ops),
                       add_and_zero |-> optimize_add_and_zero(tree.cond, tree.ops),
                       op |-> optimize(tree.cond, tree.ops)]
    /\ UNCHANGED <<overflow_checks, data, pointer, output, stack, status, calls,
                   stdin, source, tree, rest, entry, fast>>

\* the replacement is executed from the entry memory
ExecReplacement ==
    /\ replacement # Pending /\ replacement.op # NoneOp /\ fast = Pending
    /\ fast' = execute_op(replacement.op, entry, ReaderFailed)
    /\ UNCHANGED <<overflow_checks, data, pointer, output, stack, status, calls,
                   stdin, source, tree, rest, entry, replacement>>

\* the routine itself is executed from the entry memory
ExecuteLoop ==
    /\ replacement # Pending /\ (replacement.op = NoneOp \/ fast # Pending)
    /\ Idle /\ calls = 0
    /\ EnterRoutine(tree.ops, tree.cond, << >>)
    /\ calls' = 1
    /\ UNCHANGED <<overflow_checks, stdin, xvars>>

\* the routine's call has returned
LoopDone == calls = 1 /\ Idle

\* the routine's call has returned, or the run has died in it
LoopOver == calls = 1 /\ (Idle \/ status = "panicked")

\* Routines of Inc ops only, the empty routine, and routines with an op of
\* every other kind.
ZeroLoopBodies ==
    {<<Inc(a)>> : a \in -MaxAmount..MaxAmount}
    \cup {<< >>, <<Inc(1), Inc(-2)>>, <<Seek(1)>>, <<Inc(-1), Seek(0)>>,
          <<Output, Inc(-1)>>, <<Input>>, <<Zero, Seek(1)>>,
          <<Routine(<<Inc(-1)>>, TRUE)>>}

InitZeroLoop == InitLoop({Routine(b, c) : b \in ZeroLoopBodies, c \in BOOLEAN}, {255})

NextZeroLoop ==
    \/ Optimize
    \/ ExecReplacement
    \/ ExecuteLoop
    \/ ExecSeek
    \/ ExecInc
    \/ ExecZero
    \/ ExecOutput
    \/ ExecInput
    \/ ExecRoutine
    \/ PassEnd

SpecZeroLoop == InitZeroLoop /\ [][NextZeroLoop]_vars

\* Routines of the add-and-zero shape: the multiply idiom [->(k)<] for every
\* factor k, a loop [-(step)>+<] for every step, and a loop with a target on
\* either side.
Multiply(k) == <<Inc(-1), Seek(1), Inc(k), Seek(-1)>>

AddAndZeroBodies ==
    {Multiply(k) : k \in -MaxAmount..MaxAmount}
    \cup {<<Inc(-step), Seek(1), Inc(1), Seek(-1)>> : step \in 2..MaxStep}
    \cup {<<Inc(-1), Seek(1), Inc(2), Seek(-2), Inc(1), Seek(1)>>}

InitAddAndZero == InitLoop({Routine(b, TRUE) : b \in AddAndZeroBodies}, {0, 255})

NextAddAndZero ==
    \/ Optimize
    \/ ExecReplacement
    \/ ExecuteLoop
    \/ ExecSeek
    \/ ExecInc
    \/ PassEnd

SpecAddAndZero == InitAddAndZero /\ [][NextAddAndZero]_vars

\* Loops run to their end, or for ever: the empty loop, loops of Inc ops with
\* sum 0, with an even and with an odd sum, and add-and-zero loops with step
\* 1 and with an even step, entered with every value of the base cell.  The
\* executor is one thread that always takes its next step in the loop; a
\* pass of an empty body changes nothing and is a stuttering step.
TerminationBodies ==
    {<< >>, <<Inc(1), Inc(-1)>>, <<Inc(-2)>>, <<Inc(-1)>>,
     Multiply(1), <<Inc(-2), Seek(1), Inc(1), Seek(-1)>>}

InitTermination == InitLoop({Routine(b, TRUE) : b \in TerminationBodies}, {0})

NextTermination ==
    \/ Optimize
    \/ ExecReplacement
    \/ ExecuteLoop
    \/ ExecSeek
    \/ ExecInc
    \/ PassEnd

\* a step of the executor inside the loop
LoopStep == ExecSeek \/ ExecInc \/ PassEnd

SpecTermination ==
    InitTermination /\ [][NextTermination]_vars /\ WF_vars(LoopStep)

\* optimize_add_and_zero on every body of at most MaxBody ops: Inc ops with a
\* negative, a zero and a positive amount, Seek ops in both directions and an
\* op that is neither; conditional, and for the add-and-zero bodies above
\* also non-conditional. No amount of these bodies is near an overflow, so
\* the build's overflow checks make no difference here.
ShapeOps == {Inc(-2), Inc(0), Inc(1), Seek(1), Seek(-1), Seek(-2), Output}

InitShape ==
    /\ overflow_checks = FALSE
    /\ data = NewData
    /\ pointer = NewPointer
    /\ output = << >>
    /\ stack = << >>
    /\ status = "ok"
    /\ calls = 0
    /\ stdin = << >>
    /\ source = << >>
    /\ tree \in {Routine(b, TRUE) : b \in SeqsUpTo(ShapeOps, MaxBody)}
                \cup {Routine(b, FALSE) : b \in AddAndZeroBodies}
    /\ rest = 0
    /\ entry = NoEntry
    /\ replacement = Pending
    /\ fast = Pending

NextShape == Optimize

SpecShape == InitShape /\ [][NextShape]_vars

----------------------------------------------------------------------------
(* Claims about the executor *)

MemoryUnchanged == data' = data /\ pointer' = pointer /\ output' = output

\* C3: in every state reached by executing Seek, Inc, Zero, Output and
\* Routine operations from the initial memory the cursor is a valid index
\* into the tape, 0 <= cursor < 30000, also after a Seek with a negative
\* amount at cursor 0 and after a Seek past the last cell.
C3_CursorIsValidIndex == 0 <= pointer /\ pointer < MEM_SIZE

\* C7: executing Inc(n) on a current cell holding v leaves that cell at
\* (v + n) mod 256 for every v and every signed n, never trapping on
\* overflow or underflow, and leaves every other cell, the cursor and the
\* output unchanged.
C7_IncWrapsNeverTraps ==
    [][(At("Inc") /\ InBounds(pointer)) =>
         /\ status' = "ok"
         /\ data' = Store(data, pointer, (Cell(data, pointer) + CurOp.amount) % 256)
         /\ pointer' = pointer
         /\ output' = output]_vars

\* C8: a conditional Routine entered with the current cell at zero executes
\* nothing and changes neither tape, cursor nor output; otherwise the ops run
\* in order as whole passes; after each complete pass a conditional Routine
\* stops exactly when the cell under the cursor is then zero and otherwise
\* runs another pass; a non-conditional Routine runs its ops exactly once.
C8_RoutinePasses ==
    [][/\ (At("Routine") /\ CurOp.cond /\ InBounds(pointer) /\ Cell(data, pointer) = 0) =>
            (stack' = Advance /\ MemoryUnchanged /\ status' = "ok")
       /\ (At("Routine") /\ (CurOp.cond => InBounds(pointer) /\ Cell(data, pointer) # 0)) =>
            /\ stack' = Append(Advance, [ops |-> CurOp.ops, pc |-> 1, cond |-> CurOp.cond])
            /\ MemoryUnchanged /\ status' = "ok"
       /\ (AtOp /\ CurOp.type # "Routine" /\ status' = "ok") => stack' = Advance
       /\ (Running /\ Top.pc > Len(Top.ops) /\ (Top.cond => InBounds(pointer))) =>
            /\ MemoryUnchanged /\ status' = "ok"
            /\ stack' = IF ~Top.cond \/ Cell(data, pointer) = 0
                        THEN SubSeq(stack, 1, Len(stack) - 1)
                        ELSE [stack EXCEPT ![Len(stack)].pc = 1]
       /\ (Idle /\ stack' # << >>) => (Len(stack') = 1 /\ stack'[1].pc = 1 /\ ~stack'[1].cond)
      ]_vars

\* C8 witness: the loop [.-] entered with the cell at 2 has run two whole
\* passes and stopped with the cell at zero.
C8_Witness ==
    Idle /\ calls = 2 /\ output = <<2, 1>> /\ InBounds(pointer) /\ Cell(data, pointer) = 0

----------------------------------------------------------------------------
(* Claims about the translator *)

RECURSIVE SumSeq(_)
SumSeq(q) == IF q = << >> THEN 0 ELSE Head(q) + SumSeq(Tail(q))

\* the number of ops of the given types in a tree
RECURSIVE CountOps(_, _)
CountOps(op, types) ==
    (IF op.type \in types THEN 1 ELSE 0)
    + (IF op.type = "Routine"
       THEN SumSeq([i \in DOMAIN op.ops |-> CountOps(op.ops[i], types)])
       ELSE 0)

\* the number of bytes `b` in a program
CountBytes(bytes, b) == Cardinality({i \in DOMAIN bytes : bytes[i] = b})

\* one Seek(+-1) or Inc(+-1) per token of a program, in source order
RECURSIVE NaiveOps(_)
NaiveOps(bytes) ==
    IF bytes = << >> THEN << >>
    ELSE LET b == Head(bytes)
             op == CASE b = ">" -> <<Seek(1)>>
                     [] b = "<" -> <<Seek(-1)>>
                     [] b = "+" -> <<Inc(1)>>
                     [] b = "-" -> <<Inc(-1)>>
                     [] OTHER -> << >>
         IN  op \o NaiveOps(Tail(bytes))

\* C4: for every loop-free program of the tokens > < + - (with comment bytes
\* interleaved) executing the coalesced ops the translator produced ends in
\* exactly the same tape contents and cursor as executing one Seek(+-1) or
\* Inc(+-1) per token in source order from the same initial memory.
C4_CoalescedEqualsNaive ==
    (calls = 1 /\ (Idle \/ status = "panicked")) =>
        LET naive == execute_all(NaiveOps(source), State(NewData, NewPointer, << >>), 1)
        IN  /\ (status = "panicked") = naive.panic
            /\ status = "ok" => (data = naive.data /\ pointer = naive.pointer)

\* C5: for every source byte sequence, unbalanced brackets included, the
\* translation returns one top-level non-conditional Routine containing the
\* whole program: every recognized token is consumed and represented in the
\* tree, only unrecognized bytes are skipped.
C5_WholeProgramTranslated ==
    tree # Pending =>
        /\ tree.type = "Routine" /\ ~tree.cond
        /\ rest = Len(source)
        /\ CountOps(tree, {"Output"}) = CountBytes(source, ".")
        /\ CountOps(tree, {"Input"}) = CountBytes(source, ",")
        /\ CountOps(tree, {"Routine", "Zero"}) = 1 + CountBytes(source, "[")

----------------------------------------------------------------------------
(* Claims about the loop optimizers *)

\* C2: the zero-loop rewrite returns Zero if and only if the routine is
\* conditional and its body is non-empty and consists only of Inc ops; for an
\* empty body or a body with a Seek, Output, Input or nested Routine it
\* returns no replacement.
C2_ZeroIffNonEmptyIncBody ==
    replacement # Pending =>
        /\ replacement.zero \in {Zero, NoneOp}
        /\ (replacement.zero = Zero) <=>
             /\ tree.cond
             /\ tree.ops # << >>
             /\ \A i \in DOMAIN tree.ops : tree.ops[i].type = "Inc"

\* C9: for a conditional loop whose body consists only of Inc ops and every
\* initial cell value for which the unoptimized loop terminates, the loop and
\* its Zero replacement both leave the current cell at 0 and the cursor, the
\* other cells and the output unchanged.
C9_ZeroLoopBothLeaveZero ==
    (LoopDone /\ tree.cond /\ tree.ops # << >> /\ AllInc(tree.ops)) =>
        LET zeroed == Store(entry.data, entry.pointer, 0)
        IN  /\ data = zeroed /\ pointer = entry.pointer /\ output = entry.output
            /\ replacement.op = Zero
            /\ fast = [entry EXCEPT !.data = zeroed]

\* C9 witness: the loop [-] entered with the cell at 3 has terminated, and
\* its replacement has been executed.
C9_Witness ==
    /\ LoopDone /\ tree = Routine(<<Inc(-1)>>, TRUE)
    /\ Cell(entry.data, BasePos) = 3 /\ Cell(data, BasePos) = 0
    /\ fast # Pending /\ fast.data = data

\* C1: for every loop body optimize_add_and_zero accepts and every initial
\* value of the base cell and the target cells, executing the AddAndZero is
\* observably equivalent to executing the body as a conditional Routine: the
\* same tape, cursor and output, for every step and not only for step 1.
C1_AddAndZeroEquivalent ==
    (LoopOver /\ replacement.add_and_zero # NoneOp) =>
        /\ (status = "panicked") = fast.panic
        /\ status = "ok" =>
             (data = fast.data /\ pointer = fast.pointer /\ output = fast.output)

\* C6: for the multiply idiom with step 1 and one target at offset +1 with
\* integer factor k, for every source value s and target value t, AddAndZero
\* leaves the source at 0 and the target at (t + k*s) mod 256, the same
\* result as running the loop iteratively.
C6_MultiplyIdiom ==
    \A k \in -MaxAmount..MaxAmount :
        (tree = Routine(Multiply(k), TRUE) /\ fast # Pending) =>
            LET s == Cell(entry.data, BasePos)
                t == Cell(entry.data, BasePos + 1)
                result == Store(Store(entry.data, BasePos, 0), BasePos + 1, (t + k * s) % 256)
            IN  /\ replacement.op.type = "AddAndZero"
                /\ ~fast.panic /\ fast.data = result /\ fast.pointer = BasePos
                /\ LoopOver => (status = "ok" /\ data = result /\ pointer = BasePos)

\* C11: a loop whose one-pass-at-a-time execution never terminates is never
\* replaced by an instruction that terminates: whenever the Zero or
\* AddAndZero replacement of a loop has run to its end, the loop itself,
\* entered with the same memory, comes to an end as well, for every initial
\* cell value 0..255, empty bodies, bodies with sum 0 or an even sum and
\* add-and-zero loops with an even step included.
C11_InfiniteStaysInfinite == (calls = 1 /\ fast # Pending) ~> LoopOver

\* the offset from the base cell after the Seek of the j-th (Seek, Inc) pair
RECURSIVE RunningOffset(_, _)
RunningOffset(ops, j) ==
    IF j = 0 THEN 0 ELSE RunningOffset(ops, j - 1) + ops[2 * j].amount

\* the number of (Seek, Inc) pairs in a body of an Inc, pairs and a Seek
Pairs(ops) == (Len(ops) - 2) \div 2

\* the shape of an add-and-zero body
AddAndZeroShape(cond, ops) ==
    /\ cond
    /\ Len(ops) >= 4
    /\ ops[1].type = "Inc" /\ ops[1].amount < 0
    /\ Len(ops) % 2 = 0
    /\ \A j \in 1..Pairs(ops) :
         /\ ops[2 * j].type = "Seek" /\ ops[2 * j + 1].type = "Inc"
         /\ RunningOffset(ops, j) # 0
    /\ ops[Len(ops)].type = "Seek"
    /\ ops[Len(ops)].amount = -RunningOffset(ops, Pairs(ops))

\* the pairs <<running offset, Inc amount>> of a body in encounter order,
\* those with amount 0 left out
AddedPairs(ops) ==
    SelectSeq([j \in 1..Pairs(ops) |-> <<RunningOffset(ops, j), ops[2 * j + 1].amount>>],
              LAMBDA t : t[2] # 0)

\* f is the f32 nearest to amount / step: its sign is that of amount, its
\* mantissa has 24 bits and is within half a unit of the exact quotient
IsQuotient(f, amount, step) ==
    /\ f.neg = (amount < 0)
    /\ Pow2(23) <= f.mant /\ f.mant < Pow2(24)
    /\ f.exp <= 0
    /\ 2 * Abs(Abs(amount) * Pow2(-f.exp) - f.mant * step) <= step

====
